---- MODULE Spec2Model ----
(***************************************************************************)
(* A model of src/main.py, the CNAB-400 to spreadsheet converter: the      *)
(* field formatters, the line parser parse_cnab_linha, the per-file        *)
(* pipeline processar_arquivo and the run loop of main.                    *)
(*                                                                         *)
(* Text is a sequence of one-character strings.  A Python int is a         *)
(* sequence of decimal digits (most significant first, no leading zero,    *)
(* zero is the empty sequence), so that it has no width.  A Python float   *)
(* is a record [m |-> int, e |-> exponent] standing for m * 2^e, with m    *)
(* odd (or zero) and below 2^53: the IEEE-754 binary64 values, rounded to  *)
(* nearest-even by every operation as CPython does.                        *)
(***************************************************************************)
EXTENDS Integers, Sequences, FiniteSets, TLC

(***************************************************************************)
(* The state                                                               *)
(***************************************************************************)
VARIABLES
    doc_arg, doc_formatado,      \* formatar_cpf_cnpj: argument and result
    valor_arg, valor_formatado,  \* parse_valor, numero_para_valor: argument, result
    linha_arg, reg,              \* parse_cnab_linha: argument and result
    pc,                          \* where the program is
    openpyxl,                    \* whether openpyxl can be imported
    n_arquivos,                  \* len(arquivos) of main
    i_arquivo,                   \* main: the file being processed, 1-based
    sucessos, falhas,            \* main's counters
    enc,                         \* processar_arquivo: the encoding tried, 1-based
    linhas,                      \* processar_arquivo: f.readlines()
    i_linha,                     \* the next line of linhas
    registros,                   \* processar_arquivo: registros
    operacoes_agrupadas,         \* the dict, in insertion order
    i_reg,                       \* the next record of registros to group
    registros_agrupados,         \* the rows of the spreadsheet
    retorno,                     \* how processar_arquivo ended for file i_arquivo
    planilhas                    \* the files whose spreadsheet was saved

(***************************************************************************)
(* Characters                                                              *)
(***************************************************************************)
DigitChars == <<"0", "1", "2", "3", "4", "5", "6", "7", "8", "9">>
UpperChars == <<"A", "B", "C", "D", "E", "F", "G", "H", "I", "J", "K", "L", "M",
                "N", "O", "P", "Q", "R", "S", "T", "U", "V", "W", "X", "Y", "Z">>
LowerChars == <<"a", "b", "c", "d", "e", "f", "g", "h", "i", "j", "k", "l", "m",
                "n", "o", "p", "q", "r", "s", "t", "u", "v", "w", "x", "y", "z">>

\* \d
Digitos09 == {DigitChars[i] : i \in 1..10}
IsDigit(c) == c \in Digitos09
\* [a-zA-Z]
Letras == {UpperChars[i] : i \in 1..26} \cup {LowerChars[i] : i \in 1..26}
IsLetter(c) == c \in Letras
\* what str.strip() removes
IsSpace(c) == c \in {" ", "\n", "\r", "\t"}

DigitVal(c) == (CHOOSE i \in 1..10 : DigitChars[i] = c) - 1
DigitChar(d) == DigitChars[d + 1]

\* str.lower() of one character
LowerChar(c) ==
    IF \E i \in 1..26 : UpperChars[i] = c
    THEN LowerChars[CHOOSE i \in 1..26 : UpperChars[i] = c]
    ELSE c

\* str.lower()
Lower(s) == [i \in 1..Len(s) |-> LowerChar(s[i])]

\* s[a:b] of Python (0-based, end exclusive, clipped to the string)
Slice(s, a, b) ==
    LET lo == IF a > Len(s) THEN Len(s) ELSE a
        hi == IF b > Len(s) THEN Len(s) ELSE b
    IN  IF hi <= lo THEN <<>> ELSE SubSeq(s, lo + 1, hi)

\* The least element of a non-empty set of integers
Min(S) == CHOOSE x \in S : \A y \in S : x <= y
Max(S) == CHOOSE x \in S : \A y \in S : x >= y

\* str.strip()
Strip(s) ==
    IF \A i \in 1..Len(s) : IsSpace(s[i]) THEN <<>>
    ELSE SubSeq(s,
                CHOOSE i \in 1..Len(s) :
                    ~IsSpace(s[i]) /\ \A j \in 1..(i - 1) : IsSpace(s[j]),
                CHOOSE i \in 1..Len(s) :
                    ~IsSpace(s[i]) /\ \A j \in (i + 1)..Len(s) : IsSpace(s[j]))

\* re.sub(r'\D', '', s)
OnlyDigits(s) == SelectSeq(s, IsDigit)

\* str.zfill(n)
ZFill(s, n) ==
    IF Len(s) >= n THEN s ELSE [i \in 1..(n - Len(s)) |-> "0"] \o s

\* s.startswith(p)
StartsWith(s, p) == Len(s) >= Len(p) /\ SubSeq(s, 1, Len(p)) = p

(***************************************************************************)
(* Python ints of any size                                                 *)
(***************************************************************************)
BigNorm(d) ==
    LET nz == {i \in 1..Len(d) : d[i] # 0}
    IN  IF nz = {} THEN <<>> ELSE SubSeq(d, Min(nz), Len(d))

\* int(s) of a string of digits
BigOfStr(s) == BigNorm([i \in 1..Len(s) |-> DigitVal(s[i])])

\* str(n)
StrOfBig(d) == IF d = <<>> THEN <<"0">> ELSE [i \in 1..Len(d) |-> DigitChar(d[i])]

\* quotient and remainder by a small k
RECURSIVE BigDivAcc(_, _, _, _, _)
BigDivAcc(d, k, i, q, r) ==
    IF i > Len(d) THEN [q |-> BigNorm(q), r |-> r]
    ELSE LET cur == r * 10 + d[i]
         IN  BigDivAcc(d, k, i + 1, Append(q, cur \div k), cur % k)

BigDiv(d, k) == BigDivAcc(d, k, 1, <<>>, 0)

\* product by a small k
RECURSIVE BigMulAcc(_, _, _, _, _)
BigMulAcc(d, k, i, carry, out) ==
    IF i = 0
    THEN IF carry = 0 THEN out
         ELSE BigMulAcc(d, k, 0, carry \div 10, <<carry % 10>> \o out)
    ELSE LET cur == d[i] * k + carry
         IN  BigMulAcc(d, k, i - 1, cur \div 10, <<cur % 10>> \o out)

BigMul(d, k) == BigNorm(BigMulAcc(d, k, Len(d), 0, <<>>))

\* d * 2^n
RECURSIVE BigMulPow2(_, _)
BigMulPow2(d, n) ==
    IF n <= 16 THEN BigMul(d, 2 ^ n)
    ELSE BigMulPow2(BigMul(d, 65536), n - 16)

\* d \div 2^n, and whether a remainder was dropped
RECURSIVE BigDivPow2(_, _, _)
BigDivPow2(d, n, s) ==
    IF n <= 16
    THEN LET h == BigDiv(d, 2 ^ n) IN [q |-> h.q, s |-> s \/ h.r # 0]
    ELSE LET h == BigDiv(d, 65536) IN BigDivPow2(h.q, n - 16, s \/ h.r # 0)

RECURSIVE BigAddAcc(_, _, _, _, _)
BigAddAcc(a, b, i, carry, out) ==
    IF i >= Len(a) /\ i >= Len(b)
    THEN IF carry = 0 THEN out ELSE <<carry>> \o out
    ELSE LET x == IF i < Len(a) THEN a[Len(a) - i] ELSE 0
             y == IF i < Len(b) THEN b[Len(b) - i] ELSE 0
             cur == x + y + carry
         IN  BigAddAcc(a, b, i + 1, cur \div 10, <<cur % 10>> \o out)

BigAdd(a, b) == BigAddAcc(a, b, 0, 0, <<>>)

\* a < b
BigLess(a, b) ==
    IF Len(a) # Len(b) THEN Len(a) < Len(b)
    ELSE \E i \in 1..Len(a) : a[i] < b[i] /\ \A j \in 1..(i - 1) : a[j] = b[j]

BigIsOdd(d) == d # <<>> /\ d[Len(d)] % 2 = 1

\* The number of bits of d
RECURSIVE BigBits(_, _)
BigBits(d, n) ==
    IF d = <<>> THEN n
    ELSE IF Len(d) > 5 THEN BigBits(BigDiv(d, 65536).q, n + 16)
    ELSE BigBits(BigDiv(d, 2).q, n + 1)

(***************************************************************************)
(* Python floats (IEEE-754 binary64, round to nearest, ties to even)       *)
(***************************************************************************)
\* 2^1024 - 2^970: the least int that float() cannot hold (it would round
\* to 2^1024)
FloatOverflowInt ==
    <<1, 7, 9, 7, 6, 9, 3, 1, 3, 4, 8, 6, 2, 3, 1, 5, 8, 0, 7, 9, 3, 7, 2, 8,
      9, 7, 1, 4, 0, 5, 3, 0, 3, 4, 1, 5, 0, 7, 9, 9, 3, 4, 1, 3, 2, 7, 1, 0,
      0, 3, 7, 8, 2, 6, 9, 3, 6, 1, 7, 3, 7, 7, 8, 9, 8, 0, 4, 4, 4, 9, 6, 8,
      2, 9, 2, 7, 6, 4, 7, 5, 0, 9, 4, 6, 6, 4, 9, 0, 1, 7, 9, 7, 7, 5, 8, 7,
      2, 0, 7, 0, 9, 6, 3, 3, 0, 2, 8, 6, 4, 1, 6, 6, 9, 2, 8, 8, 7, 9, 1, 0,
      9, 4, 6, 5, 5, 5, 5, 4, 7, 8, 5, 1, 9, 4, 0, 4, 0, 2, 6, 3, 0, 6, 5, 7,
      4, 8, 8, 6, 7, 1, 5, 0, 5, 8, 2, 0, 6, 8, 1, 9, 0, 8, 9, 0, 2, 0, 0, 0,
      7, 0, 8, 3, 8, 3, 6, 7, 6, 2, 7, 3, 8, 5, 4, 8, 4, 5, 8, 1, 7, 7, 1, 1,
      5, 3, 1, 7, 6, 4, 4, 7, 5, 7, 3, 0, 2, 7, 0, 0, 6, 9, 8, 5, 5, 5, 7, 1,
      3, 6, 6, 9, 5, 9, 6, 2, 2, 8, 4, 2, 9, 1, 4, 8, 1, 9, 8, 6, 0, 8, 3, 4,
      9, 3, 6, 4, 7, 5, 2, 9, 2, 7, 1, 9, 0, 7, 4, 1, 6, 8, 4, 4, 4, 3, 6, 5,
      5, 1, 0, 7, 0, 4, 3, 4, 2, 7, 1, 1, 5, 5, 9, 6, 9, 9, 5, 0, 8, 0, 9, 3,
      0, 4, 2, 8, 8, 0, 1, 7, 7, 9, 0, 4, 1, 7, 4, 4, 9, 7, 7, 9, 2>>

FloatZero == [m |-> <<>>, e |-> 0]

\* The same value with an odd significand
RECURSIVE FloatCanon(_)
FloatCanon(f) ==
    IF f.m = <<>> THEN FloatZero
    ELSE IF BigIsOdd(f.m) THEN f
    ELSE LET h == BigDiv(f.m, 65536)
         IN  IF h.r = 0 THEN FloatCanon([m |-> h.q, e |-> f.e + 16])
             ELSE FloatCanon([m |-> BigDiv(f.m, 2).q, e |-> f.e + 1])

\* d / 2^n rounded to the nearest integer, ties to even; s says that d is
\* itself a little more than the digits say
BigShrRound(d, n, s) ==
    IF n = 0 THEN d
    ELSE LET a == BigDivPow2(d, n - 1, s)
             h == BigDiv(a.q, 2)
         IN  IF h.r = 1 /\ (a.s \/ BigIsOdd(h.q)) THEN BigAdd(h.q, <<1>>) ELSE h.q

\* d * 2^e (and a little more if s) rounded to a significand of 53 bits
FloatRound(d, e, s) ==
    LET n == IF BigBits(d, 0) > 53 THEN BigBits(d, 0) - 53 ELSE 0
    IN  FloatCanon([m |-> BigShrRound(d, n, s), e |-> e + n])

\* float(n) of an int raises OverflowError
IntOverflows(n) == ~BigLess(n, FloatOverflowInt)

\* float(n) of an int that it can hold
FloatOfInt(n) == FloatRound(n, 0, FALSE)

\* x / 100.0
FloatDiv100(f) ==
    IF f.m = <<>> THEN FloatZero
    ELSE LET h == BigDiv(BigMulPow2(f.m, 64), 100)
         IN  FloatRound(h.q, f.e - 64, h.r # 0)

\* a + b
FloatAdd(a, b) ==
    LET lo == IF a.e < b.e THEN a.e ELSE b.e
        x  == BigMulPow2(a.m, a.e - lo)
        y  == BigMulPow2(b.m, b.e - lo)
    IN  FloatRound(BigAdd(x, y), lo, FALSE)

\* The digits of format(x, '.2f') without the point: x * 100 rounded to the
\* nearest integer, ties to even
FloatCentavos(f) ==
    LET c == BigMul(f.m, 100)
    IN  IF f.e >= 0 THEN BigMulPow2(c, f.e) ELSE BigShrRound(c, 0 - f.e, FALSE)

(***************************************************************************)
(* Field formatters                                                        *)
(***************************************************************************)
\* def parse_valor(valor_str): the float, 0.0 on any exception
parse_valor(valor_str) ==
    LET stripped    == Strip(valor_str)
        valor_limpo == OnlyDigits(stripped)
    IN  IF stripped = <<>> THEN FloatZero
        ELSE IF valor_limpo = <<>> \/ valor_limpo = <<"0">> THEN FloatZero
        ELSE IF IntOverflows(BigOfStr(valor_limpo)) THEN FloatZero
        ELSE FloatDiv100(FloatOfInt(BigOfStr(valor_limpo)))

\* The integer digits in groups of three, as format's "," option writes them
RECURSIVE Group3(_)
Group3(s) ==
    IF Len(s) <= 3 THEN s
    ELSE Group3(SubSeq(s, 1, Len(s) - 3)) \o <<",">> \o SubSeq(s, Len(s) - 2, Len(s))

\* f"{numero:,.2f}"
FormatComma2f(numero) ==
    LET ds == ZFill(StrOfBig(FloatCentavos(numero)), 3)
    IN  Group3(SubSeq(ds, 1, Len(ds) - 2)) \o <<".">> \o SubSeq(ds, Len(ds) - 1, Len(ds))

\* str.replace(a, b) for one-character a and b
Replace(s, a, b) == [i \in 1..Len(s) |-> IF s[i] = a THEN b ELSE s[i]]

\* def numero_para_valor(numero)
numero_para_valor(numero) ==
    Replace(Replace(Replace(<<"R", "$", " ">> \o FormatComma2f(numero),
                            ",", "X"), ".", ","), "X", ".")

\* formatar_cpf_cnpj keeping the first 11 digits, doc[:11]
formatar_cpf_cnpj_primeiros(doc) ==
    LET d1 == OnlyDigits(doc)
        d2 == IF Len(d1) > 11 THEN SubSeq(d1, 1, 11) ELSE d1
        d3 == ZFill(d2, 11)
    IN  IF Len(d3) = 11
        THEN SubSeq(d3, 1, 3) \o <<".">> \o SubSeq(d3, 4, 6) \o <<".">>
             \o SubSeq(d3, 7, 9) \o <<"-">> \o SubSeq(d3, 10, 11)
        ELSE d3

\* def formatar_cpf_cnpj(doc)
formatar_cpf_cnpj(doc) ==
    LET d1 == OnlyDigits(doc)
        d2 == IF Len(d1) > 11 THEN SubSeq(d1, Len(d1) - 10, Len(d1)) ELSE d1
        d3 == ZFill(d2, 11)
    IN  IF Len(d3) = 11
        THEN SubSeq(d3, 1, 3) \o <<".">> \o SubSeq(d3, 4, 6) \o <<".">>
             \o SubSeq(d3, 7, 9) \o <<"-">> \o SubSeq(d3, 10, 11)
        ELSE d3

\* def formatar_cep(cep)
formatar_cep(cep) ==
    LET d == OnlyDigits(cep)
    IN  IF Len(d) = 8 THEN SubSeq(d, 1, 5) \o <<"-">> \o SubSeq(d, 6, 8) ELSE d

\* def formatar_telefone(tel)
formatar_telefone(tel) ==
    LET d == OnlyDigits(tel)
    IN  IF Len(d) = 11
        THEN <<"(">> \o SubSeq(d, 1, 2) \o <<")", " ">> \o SubSeq(d, 3, 7)
             \o <<"-">> \o SubSeq(d, 8, 11)
        ELSE IF Len(d) = 10
        THEN <<"(">> \o SubSeq(d, 1, 2) \o <<")", " ">> \o SubSeq(d, 3, 6)
             \o <<"-">> \o SubSeq(d, 7, 10)
        ELSE d

(***************************************************************************)
(* The regular expressions of parse_cnab_linha                             *)
(***************************************************************************)
\* The first position at or after i whose character is not in classe, or
\* Len(s) + 1
RunEnd(s, i, classe) ==
    CHOOSE j \in i..(Len(s) + 1) :
        /\ j = Len(s) + 1 \/ s[j] \notin classe
        /\ \A t \in i..(j - 1) : s[t] \in classe

\* 0{5,}(\d+?)457 matched at s with k zeros and a group of l digits
ValorMatches(linha, s, k, l, zeros, digits) ==
    /\ s + k <= zeros
    /\ s + k + l + 3 <= digits
    /\ SubSeq(linha, s + k + l, s + k + l + 2) = <<"4", "5", "7">>

\* The ways <<k, l>> in which 0{5,}(\d+?)457 matches at s
ValorMatchesAt(linha, s) ==
    IF ~(s + 4 <= Len(linha) /\ \A j \in s..(s + 4) : linha[j] = "0") THEN {}
    ELSE LET zeros  == RunEnd(linha, s, {"0"})
             digits == RunEnd(linha, zeros, Digitos09)
         IN  {kl \in (5..(zeros - s)) \X (1..(digits - s)) :
                ValorMatches(linha, s, kl[1], kl[2], zeros, digits)}

\* re.search(r'0{5,}(\d+?)457', linha).group(1), <<>> standing for no match:
\* the leftmost start, the zeros greedy, the group lazy
ValorGroup(linha) ==
    LET starts == {s \in 1..Len(linha) : ValorMatchesAt(linha, s) # {}}
    IN  IF starts = {} THEN <<>>
        ELSE LET s  == Min(starts)
                 ms == ValorMatchesAt(linha, s)
                 k  == Max({kl[1] : kl \in ms})
                 l  == Min({kl[2] : kl \in {x \in ms : x[1] = k}})
             IN  SubSeq(linha, s + k, s + k + l - 1)

\* re.search(r'\d{8}', region).group(), <<>> standing for no match
CepMatch(region) ==
    LET starts == {s \in 1..(Len(region) - 7) :
                     \A j \in s..(s + 7) : IsDigit(region[j])}
    IN  IF starts = {} THEN <<>>
        ELSE SubSeq(region, Min(starts), Min(starts) + 7)

\* [a-zA-Z0-9._%+-]
LocalChars == Letras \cup Digitos09 \cup {".", "_", "%", "+", "-"}
IsLocalChar(c) == c \in LocalChars
\* [a-zA-Z0-9.-]
DomainChars == Letras \cup Digitos09 \cup {".", "-"}
IsDomainChar(c) == c \in DomainChars

\* EmailDots with a first character of the class of the rest of the local part
EmailDots_sem_letra(r, i) ==
    IF ~(i <= Len(r) /\ IsLocalChar(r[i])) THEN {}
    ELSE LET at == RunEnd(r, i + 1, LocalChars)
         IN  IF ~(at <= Len(r) /\ r[at] = "@") THEN {}
             ELSE {p \in (at + 2)..(RunEnd(r, at + 1, DomainChars) - 1) :
                     /\ r[p] = "."
                     /\ RunEnd(r, p + 1, Letras) - (p + 1) >= 2}

\* The positions p of the dot before the suffix in the matches of
\* [a-zA-Z][a-zA-Z0-9._%+-]*@[a-zA-Z0-9.-]+\.[a-zA-Z]{2,} that start at i
EmailDots(r, i) ==
    IF ~(i <= Len(r) /\ IsLetter(r[i])) THEN {}
    ELSE LET at == RunEnd(r, i + 1, LocalChars)
         IN  IF ~(at <= Len(r) /\ r[at] = "@") THEN {}
             ELSE {p \in (at + 2)..(RunEnd(r, at + 1, DomainChars) - 1) :
                     /\ r[p] = "."
                     /\ RunEnd(r, p + 1, Letras) - (p + 1) >= 2}

\* re.search(<the pattern>, region).group(), <<>> standing for no match: the
\* leftmost start, the domain and the suffix greedy
EmailMatch(r) ==
    LET starts == {i \in 1..Len(r) : EmailDots(r, i) # {}}
    IN  IF starts = {} THEN <<>>
        ELSE LET i == Min(starts)
                 p == Max(EmailDots(r, i))
             IN  SubSeq(r, i, RunEnd(r, p + 1, Letras) - 1)

(***************************************************************************)
(* def parse_cnab_linha(linha)                                             *)
(***************************************************************************)
\* IdTitulo with the suffix left in place
IdTitulo_com_sufixo(linha) ==
    LET id_titulo_parcela == Strip(Slice(linha, 108, 122))
    IN  IF StartsWith(id_titulo_parcela, <<"2", "1", "0">>)
        THEN SubSeq(id_titulo_parcela, 4, Len(id_titulo_parcela))
        ELSE id_titulo_parcela

\* The operation number of linha[108:122], without the prefix 210 and the
\* suffix from the hyphen on
IdTitulo(linha) ==
    LET id_titulo_parcela == Strip(Slice(linha, 108, 122))
        sem_prefixo == IF StartsWith(id_titulo_parcela, <<"2", "1", "0">>)
                       THEN SubSeq(id_titulo_parcela, 4, Len(id_titulo_parcela))
                       ELSE id_titulo_parcela
        hifens == {i \in 1..Len(sem_prefixo) : sem_prefixo[i] = "-"}
    IN  IF hifens # {} THEN SubSeq(sem_prefixo, 1, Min(hifens) - 1)
        ELSE sem_prefixo

\* valor: int(group) / 100.0, 0.0 without a match
Valor(linha) ==
    IF ValorGroup(linha) = <<>> THEN FloatZero
    ELSE FloatDiv100(FloatOfInt(BigOfStr(ValorGroup(linha))))

\* int(valor_centavos) / 100.0 raises OverflowError
ValorRaises(linha) ==
    ValorGroup(linha) # <<>> /\ IntOverflows(BigOfStr(ValorGroup(linha)))

Cep(linha) ==
    LET m == CepMatch(Slice(linha, 310, 340))
    IN  IF m # <<>> THEN formatar_cep(m) ELSE <<>>

Email(linha) == Lower(EmailMatch(Slice(linha, 326, 385)))

\* The result: kind "None" for return None, "raise" for the exception that
\* leaves the function, "reg" for the dictionary returned
parse_cnab_linha(linha) ==
    IF Len(linha) < 400 THEN [kind |-> "None"]
    ELSE IF Slice(linha, 0, 1) # <<"1">> THEN [kind |-> "None"]
    ELSE IF ValorRaises(linha) THEN [kind |-> "raise"]
    ELSE [kind      |-> "reg",
          nome      |-> Strip(Slice(linha, 234, 274)),
          cpf_cnpj  |-> formatar_cpf_cnpj(Strip(Slice(linha, 220, 234))),
          valor     |-> Valor(linha),
          id_titulo |-> IdTitulo(linha),
          endereco  |-> Strip(Slice(linha, 274, 326)),
          cep       |-> Cep(linha),
          email     |-> Email(linha),
          telefone  |-> formatar_telefone(Strip(Slice(linha, 382, 394)))]

(***************************************************************************)
(* Input lines.  A line is given by its length and the text of its fields, *)
(* each at the offset parse_cnab_linha reads it from; every other column   *)
(* is a space.  Texto(l) is the string that readlines() hands over.        *)
(***************************************************************************)
\* str(n) of a small int
RECURSIVE BigOfNat(_)
BigOfNat(n) == IF n = 0 THEN <<>> ELSE Append(BigOfNat(n \div 10), n % 10)

Dec(n) == StrOfBig(BigOfNat(n))

Rep(c, n) == [i \in 1..n |-> c]

\* Where the fields start (0-based): tipo_registro, id_titulo_parcela, the
\* amount, cpf_cnpj_raw, nome, the email window
Campos(l) ==
    <<[pos |-> 0, txt |-> l.tipo], [pos |-> 108, txt |-> l.titulo],
      [pos |-> 126, txt |-> l.valor], [pos |-> 220, txt |-> l.cpf],
      [pos |-> 234, txt |-> l.nome], [pos |-> 326, txt |-> l.email]>>

Texto(l) ==
    [i \in 1..l.tam |->
        LET hit == {c \in 1..6 : /\ i > Campos(l)[c].pos
                                 /\ i <= Campos(l)[c].pos + Len(Campos(l)[c].txt)}
        IN  IF hit = {} THEN (IF l.nl /\ i = l.tam THEN "\n" ELSE " ")
            ELSE Campos(l)[Max(hit)].txt[i - Campos(l)[Max(hit)].pos]]

(***************************************************************************)
(* Bounds of the model                                                     *)
(***************************************************************************)
\* Files in the CNABs folder
MaxArquivos == 2
\* Lines in a file
MaxLinhas == 3
\* Characters of a document handed to formatar_cpf_cnpj
MaxDoc == 15
\* Centavos handed to parse_valor, besides the large amounts
MaxCentavos == 130

(***************************************************************************)
(* The lines of the files of a run                                         *)
(***************************************************************************)
\* Field texts of the lines
T_OP1 == <<"2", "1", "0", "4", "7", "5", "7", "1", "4", "6">>
T_OP1S == <<"4", "7", "5", "7", "1", "4", "6">>
T_OP2 == <<"5", "5", "5", "0", "0", "0", "0">>
T_P1 == <<"-", "0", "0", "1">>
T_P2 == <<"-", "0", "0", "2">>
T_P3 == <<"-", "0", "0", "3">>
T_ANA == <<"A", "N", "A">>
T_BIA == <<"B", "I", "A">>
T_CID == <<"C", "I", "D">>
T_CPF == <<"0", "0", "0", "1", "2", "3", "4", "5", "6", "7", "8", "9", "0", "1">>
T_MAIL == <<"@", "M", "a", "i", "l", ".", "c", "o", "m">>

LinhaVazia ==
    [tam |-> 401, nl |-> TRUE, tipo |-> <<"1">>, titulo |-> <<>>, valor |-> <<>>,
     cpf |-> <<>>, nome |-> <<>>, email |-> <<>>]

\* The amount as the files write it: 13 digits and the bank code 457
Quantia(c) == ZFill(Dec(c), 13) \o <<"4", "5", "7">>

\* An amount too large for a float
QuantiaEnorme == Rep("0", 5) \o Rep("9", 310) \o <<"4", "5", "7">>

Detalhe(titulo, nome, valor) ==
    [LinhaVazia EXCEPT !.titulo = titulo, !.nome = nome, !.valor = valor,
                       !.cpf = T_CPF, !.email = nome \o T_MAIL]

\* The kinds of line of a file: a header, a detail line cut short, two
\* instalments of one operation, another operation written without prefix,
\* suffix and amount, and a line whose amount is too large
LinhasArquivo ==
    { [LinhaVazia EXCEPT !.tipo = <<"0">>],
      [LinhaVazia EXCEPT !.tam = 399, !.nl = FALSE, !.titulo = T_OP1 \o T_P1],
      Detalhe(T_OP1 \o T_P1, T_ANA, Quantia(500)),
      Detalhe(T_OP1 \o T_P2, T_BIA, Quantia(700)),
      Detalhe(T_OP2, T_CID, <<>>),
      [LinhaVazia EXCEPT !.tam = 450, !.titulo = T_OP1 \o T_P3, !.valor = QuantiaEnorme] }

RECURSIVE SeqsAte(_, _)
SeqsAte(S, n) ==
    IF n = 0 THEN {<<>>}
    ELSE SeqsAte(S, n - 1)
         \cup {Append(q, x) : q \in {y \in SeqsAte(S, n - 1) : Len(y) = n - 1}, x \in S}

\* What a file may hold
Arquivos == SeqsAte(LinhasArquivo, MaxLinhas)

\* reg = parse_cnab_linha(linha) of the line loop, for each line a file may hold
RegistroDaLinha == [l \in LinhasArquivo |-> parse_cnab_linha(Texto(l))]

vars == <<doc_arg, doc_formatado, valor_arg, valor_formatado, linha_arg, reg, pc, openpyxl,
          n_arquivos, i_arquivo, sucessos, falhas, enc, linhas, i_linha, registros,
          operacoes_agrupadas, i_reg, registros_agrupados, retorno, planilhas>>

puras == <<doc_arg, doc_formatado, valor_arg, valor_formatado>>
contadores == <<sucessos, falhas>>
locais == <<enc, linhas, i_linha, registros, operacoes_agrupadas, i_reg, registros_agrupados>>

SemReg == [kind |-> "None"]

PurasInit ==
    /\ doc_arg = <<>> /\ doc_formatado = <<>>
    /\ valor_arg = <<>> /\ valor_formatado = <<>>

LocaisInit ==
    /\ enc = 1 /\ linhas = <<>> /\ i_linha = 1 /\ registros = <<>>
    /\ operacoes_agrupadas = <<>> /\ i_reg = 1 /\ registros_agrupados = <<>>

(***************************************************************************)
(* def processar_arquivo(caminho_cnab), called by main for file i_arquivo  *)
(***************************************************************************)
\* A fresh call: the locals of the previous one are gone
Chamar ==
    /\ enc' = 1 /\ linhas' = <<>> /\ i_linha' = 1 /\ registros' = <<>>
    /\ operacoes_agrupadas' = <<>> /\ i_reg' = 1 /\ registros_agrupados' = <<>>
    /\ linha_arg' = LinhaVazia /\ reg' = SemReg /\ retorno' = "-"

\* try: from openpyxl import ... except ImportError: return False
Importar ==
    /\ pc = "importar"
    /\ IF openpyxl THEN pc' = "abrir" /\ retorno' = retorno
       ELSE pc' = "contar" /\ retorno' = "False"
    /\ UNCHANGED <<puras, linha_arg, reg, openpyxl, n_arquivos, i_arquivo, contadores, locais,
                   planilhas>>

\* for enc in encodings: try: open, readlines, break / except: continue /
\* else: return False
Abrir ==
    /\ pc = "abrir"
    /\ \/ \E conteudo \in Arquivos :
            /\ linhas' = conteudo
            /\ pc' = "linhas"
            /\ UNCHANGED <<enc, retorno>>
       \/ /\ enc < 3
          /\ enc' = enc + 1
          /\ UNCHANGED <<pc, linhas, retorno>>
       \/ /\ enc = 3
          /\ pc' = "contar"
          /\ retorno' = "False"
          /\ UNCHANGED <<enc, linhas>>
    /\ UNCHANGED <<puras, linha_arg, reg, openpyxl, n_arquivos, i_arquivo, contadores, i_linha,
                   registros, operacoes_agrupadas, i_reg, registros_agrupados, planilhas>>

\* One turn of: for linha in linhas: if len(linha) >= 400: reg = ...; if reg: ...
\* An exception of parse_cnab_linha is caught nowhere: it ends the run
ProcessarLinha ==
    /\ pc = "linhas"
    /\ i_linha <= Len(linhas)
    /\ linha_arg' = linhas[i_linha]
    /\ i_linha' = i_linha + 1
    /\ IF linhas[i_linha].tam >= 400
       THEN LET res == RegistroDaLinha[linhas[i_linha]]
            IN  /\ reg' = res
                /\ registros' = IF res.kind = "reg" THEN Append(registros, res)
                                ELSE registros
                /\ IF res.kind = "raise"
                   THEN pc' = "abortado" /\ retorno' = "raise"
                   ELSE pc' = pc /\ retorno' = retorno
       ELSE UNCHANGED <<reg, registros, pc, retorno>>
    /\ UNCHANGED <<puras, openpyxl, n_arquivos, i_arquivo, contadores, enc, linhas,
                   operacoes_agrupadas, i_reg, registros_agrupados, planilhas>>

\* VerificarRegistros without the test of registros
VerificarRegistros_sem_teste ==
    /\ pc = "linhas"
    /\ i_linha > Len(linhas)
    /\ pc' = "agrupar" /\ retorno' = retorno
    /\ UNCHANGED <<puras, linha_arg, reg, openpyxl, n_arquivos, i_arquivo, contadores, locais,
                   planilhas>>

\* if not registros: return False
VerificarRegistros ==
    /\ pc = "linhas"
    /\ i_linha > Len(linhas)
    /\ IF registros = <<>> THEN pc' = "contar" /\ retorno' = "False"
       ELSE pc' = "agrupar" /\ retorno' = retorno
    /\ UNCHANGED <<puras, linha_arg, reg, openpyxl, n_arquivos, i_arquivo, contadores, locais,
                   planilhas>>

\* Agrupar with the total of a summary replaced by the amount of the record
Agrupar_substitui_total(ops, rg) ==
    LET onde == {j \in 1..Len(ops) : ops[j].chave = rg.id_titulo}
    IN  IF onde = {}
        THEN Append(ops, [chave |-> rg.id_titulo, nome |-> rg.nome,
                          cpf_cnpj |-> rg.cpf_cnpj, quantidade_parcelas |-> 1,
                          valor_total |-> rg.valor, id_titulo |-> rg.id_titulo,
                          endereco |-> rg.endereco, cep |-> rg.cep,
                          email |-> rg.email, telefone |-> rg.telefone])
        ELSE LET j == CHOOSE x \in onde : TRUE
             IN  [ops EXCEPT ![j].quantidade_parcelas = @ + 1,
                             ![j].valor_total = rg.valor]

\* Agrupar with the name and the email of a summary taken from the last record
Agrupar_ultimo_nome(ops, rg) ==
    LET onde == {j \in 1..Len(ops) : ops[j].chave = rg.id_titulo}
    IN  IF onde = {}
        THEN Append(ops, [chave |-> rg.id_titulo, nome |-> rg.nome,
                          cpf_cnpj |-> rg.cpf_cnpj, quantidade_parcelas |-> 1,
                          valor_total |-> rg.valor, id_titulo |-> rg.id_titulo,
                          endereco |-> rg.endereco, cep |-> rg.cep,
                          email |-> rg.email, telefone |-> rg.telefone])
        ELSE LET j == CHOOSE x \in onde : TRUE
             IN  [ops EXCEPT ![j].quantidade_parcelas = @ + 1,
                             ![j].valor_total = FloatAdd(@, rg.valor),
                             ![j].nome = rg.nome,
                             ![j].email = rg.email]

\* The body of: for reg in registros, on the dict ops
Agrupar(ops, rg) ==
    LET chave == rg.id_titulo
        onde  == {j \in 1..Len(ops) : ops[j].chave = chave}
    IN  IF onde = {}
        THEN Append(ops, [chave               |-> chave,
                          nome                |-> rg.nome,
                          cpf_cnpj            |-> rg.cpf_cnpj,
                          quantidade_parcelas |-> 1,
                          valor_total         |-> rg.valor,
                          id_titulo           |-> rg.id_titulo,
                          endereco            |-> rg.endereco,
                          cep                 |-> rg.cep,
                          email               |-> rg.email,
                          telefone            |-> rg.telefone])
        ELSE LET j == CHOOSE x \in onde : TRUE
             IN  [ops EXCEPT ![j].quantidade_parcelas = @ + 1,
                             ![j].valor_total = FloatAdd(@, rg.valor)]

AgruparRegistro ==
    /\ pc = "agrupar"
    /\ i_reg <= Len(registros)
    /\ operacoes_agrupadas' = Agrupar(operacoes_agrupadas, registros[i_reg])
    /\ i_reg' = i_reg + 1
    /\ UNCHANGED <<puras, linha_arg, reg, pc, openpyxl, n_arquivos, i_arquivo, contadores, enc,
                   linhas, i_linha, registros, registros_agrupados, retorno, planilhas>>

\* for operacao in operacoes_agrupadas.values(): registros_agrupados.append(...)
Converter(ops) ==
    [j \in 1..Len(ops) |->
        [nome      |-> ops[j].nome,
         cpf_cnpj  |-> ops[j].cpf_cnpj,
         parcelas  |-> Dec(ops[j].quantidade_parcelas),
         valor     |-> numero_para_valor(ops[j].valor_total),
         id_titulo |-> ops[j].id_titulo,
         endereco  |-> ops[j].endereco,
         cep       |-> ops[j].cep,
         email     |-> ops[j].email,
         telefone  |-> ops[j].telefone]]

ConverterOperacoes ==
    /\ pc = "agrupar"
    /\ i_reg > Len(registros)
    /\ registros_agrupados' = Converter(operacoes_agrupadas)
    /\ pc' = "salvar"
    /\ UNCHANGED <<puras, linha_arg, reg, openpyxl, n_arquivos, i_arquivo, contadores, enc,
                   linhas, i_linha, registros, operacoes_agrupadas, i_reg, retorno, planilhas>>

\* wb.save(caminho_saida); return True.  What save raises is caught nowhere
Salvar ==
    /\ pc = "salvar"
    /\ \/ /\ planilhas' = planilhas \cup {i_arquivo}
          /\ retorno' = "True"
          /\ pc' = "contar"
       \/ /\ retorno' = "raise"
          /\ pc' = "abortado"
          /\ UNCHANGED planilhas
    /\ UNCHANGED <<puras, linha_arg, reg, openpyxl, n_arquivos, i_arquivo, contadores, locais>>

(***************************************************************************)
(* def main()                                                              *)
(***************************************************************************)
\* arquivos = listar_arquivos_cnab(); if not arquivos: return
Listar ==
    /\ pc = "listar"
    /\ IF n_arquivos = 0 THEN pc' = "fim" /\ i_arquivo' = i_arquivo
       ELSE pc' = "importar" /\ i_arquivo' = 1
    /\ UNCHANGED <<puras, linha_arg, reg, openpyxl, n_arquivos, contadores, locais,
                   retorno, planilhas>>

\* if processar_arquivo(arquivo): sucessos += 1 else: falhas += 1, and the
\* next turn of the loop
Contar ==
    /\ pc = "contar"
    /\ IF retorno = "True"
       THEN sucessos' = sucessos + 1 /\ falhas' = falhas
       ELSE sucessos' = sucessos /\ falhas' = falhas + 1
    /\ IF i_arquivo < n_arquivos
       THEN i_arquivo' = i_arquivo + 1 /\ pc' = "importar" /\ Chamar
       ELSE i_arquivo' = i_arquivo /\ pc' = "fim"
            /\ UNCHANGED <<linha_arg, reg, locais, retorno>>
    /\ UNCHANGED <<puras, openpyxl, n_arquivos, planilhas>>

Init ==
    /\ PurasInit /\ LocaisInit
    /\ linha_arg = LinhaVazia /\ reg = SemReg
    /\ pc = "listar"
    /\ openpyxl \in BOOLEAN
    /\ n_arquivos \in 0..MaxArquivos
    /\ i_arquivo = 0 /\ sucessos = 0 /\ falhas = 0
    /\ retorno = "-" /\ planilhas = {}

Next ==
    \/ Listar \/ Importar \/ Abrir \/ ProcessarLinha \/ VerificarRegistros
    \/ AgruparRegistro \/ ConverterOperacoes \/ Salvar \/ Contar

Spec == Init /\ [][Next]_vars

(***************************************************************************)
(* parse_cnab_linha alone, on lines of every shape                         *)
(***************************************************************************)
\* Amounts in centavos written into lines
CentavosTeste == {0, 1, 10, 457, 500, 700, 1457, 10457, 123456}

\* What stands in the columns of the amount
ValoresTeste ==
    {Quantia(c) : c \in CentavosTeste}
    \cup { <<>>,
           <<"0", "0", "0", "0", "5", "4", "5", "7">>,
           <<"0", "0", "0", "0", "0", "4", "5", "7">> }

\* What stands in the columns of the email
EmailsTeste ==
    { <<>>,
      <<"a", "n", "a", "@", "m", "a", "i", "l", ".", "c", "o", "m">>,
      <<"1", "2", "3", "4", "5", "6", "7", "8", "J", "o", "a", "o", "@", "x", ".",
        "c", "o", "m">>,
      <<"9", "a", "@", "b", ".", "c", "o">>,
      <<"a", "@", "b", ".", "c">>,
      <<"1", "@", "b", ".", "c", "o", "m">>,
      <<"A", "n", "a", ".", "B", "_", "c", "+", "d", "@", "M", "a", "i", "l", "-",
        "X", ".", "c", "o", "m", ".", "b", "r">>,
      <<"x", "@", "y", ".", "z", "z", " ", "w", "@", "v", ".", "u", "u">> }

\* What stands in the columns of the operation number
TitulosTeste ==
    { T_OP1 \o <<"-", "0", "2", "7">>,
      <<"2", "1", "0", "-", "5">>,
      <<"2", "1", "0", "2", "1", "0", "-", "1">>,
      <<"-", "0", "2", "7">>,
      T_OP1S,
      <<"2", "1", "-", "0", "-", "3">> }

LinhaDetalhe == Detalhe(T_OP1 \o T_P1, T_ANA, Quantia(500))

LinhasTeste ==
    {[LinhaDetalhe EXCEPT !.tam = t, !.nl = n, !.tipo = tp] :
        t \in {1, 399, 400, 401}, n \in BOOLEAN,
        tp \in {<<"0">>, <<"1">>, <<"9">>, <<>>}}
    \cup {[LinhaDetalhe EXCEPT !.valor = v, !.email = e] :
            v \in ValoresTeste, e \in EmailsTeste}
    \cup {[LinhaDetalhe EXCEPT !.tam = t, !.titulo = ti] :
            t \in {400, 401}, ti \in TitulosTeste}
    \cup {[LinhaVazia EXCEPT !.tam = 450, !.titulo = ti, !.valor = QuantiaEnorme] :
            ti \in TitulosTeste}

\* The variables of main and processar_arquivo, which these functions do not touch
Parado ==
    /\ LocaisInit
    /\ openpyxl = TRUE /\ n_arquivos = 0 /\ i_arquivo = 0
    /\ sucessos = 0 /\ falhas = 0 /\ retorno = "-" /\ planilhas = {}

InitLinha ==
    /\ PurasInit /\ Parado
    /\ linha_arg \in LinhasTeste /\ reg = SemReg
    /\ pc = "parse_cnab_linha"

\* reg = parse_cnab_linha(linha)
AnalisarLinha ==
    /\ pc = "parse_cnab_linha"
    /\ reg' = parse_cnab_linha(Texto(linha_arg))
    /\ pc' = "retornou"
    /\ UNCHANGED <<puras, linha_arg, openpyxl, n_arquivos, i_arquivo, contadores, locais,
                   retorno, planilhas>>

SpecLinha == InitLinha /\ [][AnalisarLinha]_vars

(***************************************************************************)
(* formatar_cpf_cnpj alone                                                 *)
(***************************************************************************)
\* n digits, the first after d0
Digitos(n, d0) == [j \in 1..n |-> DigitChar((d0 + 3 * j) % 10)]

\* The digits as documents are written: bare, punctuated, labelled
Escrito(ds, estilo) ==
    IF estilo = 0 THEN ds
    ELSE IF estilo = 1
    THEN [j \in 1..(2 * Len(ds)) |-> IF j % 2 = 1 THEN ds[(j + 1) \div 2]
                                      ELSE IF j % 4 = 0 THEN "-" ELSE "."]
    ELSE <<"c", "p", "f", " ">> \o ds \o <<"/">>

DocsTeste == {Escrito(Digitos(n, d0), e) : n \in 0..MaxDoc, d0 \in 0..2, e \in 0..2}

InitDoc ==
    /\ Parado
    /\ doc_arg \in DocsTeste /\ doc_formatado = <<>>
    /\ valor_arg = <<>> /\ valor_formatado = <<>>
    /\ linha_arg = LinhaVazia /\ reg = SemReg
    /\ pc = "formatar_cpf_cnpj"

\* doc_formatado = formatar_cpf_cnpj(doc)
FormatarDoc ==
    /\ pc = "formatar_cpf_cnpj"
    /\ doc_formatado' = formatar_cpf_cnpj(doc_arg)
    /\ pc' = "retornou"
    /\ UNCHANGED <<doc_arg, valor_arg, valor_formatado, linha_arg, reg, openpyxl,
                   n_arquivos, i_arquivo, contadores, locais, retorno, planilhas>>

SpecDoc == InitDoc /\ [][FormatarDoc]_vars

(***************************************************************************)
(* parse_valor and numero_para_valor alone                                 *)
(***************************************************************************)
\* 2^53 + 1 centavos, the first integer a float cannot hold
T_2_53_1 == <<"9", "0", "0", "7", "1", "9", "9", "2", "5", "4", "7", "4", "0", "9",
              "9", "3">>
\* 10^17 + 1 centavos
T_10_17_1 == <<"1">> \o Rep("0", 16) \o <<"1">>

ValoresStrTeste ==
    {Dec(c) : c \in 0..MaxCentavos}
    \cup {ZFill(Dec(c), 13) : c \in CentavosTeste}
    \cup { <<>>, <<" ", " ">>, Rep("0", 9), <<" ", "1", "0", "0", " ">>,
           <<"1", ".", "2", "3", "4", ",", "5", "6">>,
           <<"9", "9", "9", "9", "9", "9", "9", "9", "9", "9", "9", "9", "9">>,
           T_2_53_1, T_10_17_1, Rep("9", 310) }

InitValor ==
    /\ Parado
    /\ doc_arg = <<>> /\ doc_formatado = <<>>
    /\ valor_arg \in ValoresStrTeste /\ valor_formatado = <<>>
    /\ linha_arg = LinhaVazia /\ reg = SemReg
    /\ pc = "parse_valor"

\* valor_formatado = numero_para_valor(parse_valor(valor_str))
FormatarValor ==
    /\ pc = "parse_valor"
    /\ valor_formatado' = numero_para_valor(parse_valor(valor_arg))
    /\ pc' = "retornou"
    /\ UNCHANGED <<doc_arg, doc_formatado, valor_arg, linha_arg, reg, openpyxl,
                   n_arquivos, i_arquivo, contadores, locais, retorno, planilhas>>

SpecValor == InitValor /\ [][FormatarValor]_vars

(***************************************************************************)
(* Properties of the aggregation of processar_arquivo                      *)
(***************************************************************************)
\* The records with identifier id among the first n of registros
Com(id, n) == {j \in 1..n : registros[j].id_titulo = id}

\* Python's sum of their amounts, in the order of the list
RECURSIVE SomaAte(_, _)
SomaAte(id, n) ==
    IF n = 0 THEN FloatZero
    ELSE IF registros[n].id_titulo = id
    THEN FloatAdd(SomaAte(id, n - 1), registros[n].valor)
    ELSE SomaAte(id, n - 1)

\* The summaries ops are those of the first n records: one per identifier,
\* in the order of first appearance, each with the count of its records
UmPorOperacao(ops, n) ==
    /\ {ops[a].id_titulo : a \in 1..Len(ops)} = {registros[j].id_titulo : j \in 1..n}
    /\ \A a \in 1..Len(ops), b \in 1..Len(ops) :
          a < b => /\ ops[a].id_titulo # ops[b].id_titulo
                   /\ Min(Com(ops[a].id_titulo, n)) < Min(Com(ops[b].id_titulo, n))

\* C1: the aggregation gives one summary per distinct identifier, in the order
\* in which the identifiers first appear; the count of a summary is the number
\* of records with its identifier and its total the sum of their amounts, at
\* every turn of the loop and in the rows handed to the spreadsheet
C1_UmaLinhaPorOperacao ==
    /\ pc = "agrupar" =>
          /\ UmPorOperacao(operacoes_agrupadas, i_reg - 1)
          /\ \A a \in 1..Len(operacoes_agrupadas) :
                LET op == operacoes_agrupadas[a]
                IN  /\ op.chave = op.id_titulo
                    /\ op.quantidade_parcelas = Cardinality(Com(op.id_titulo, i_reg - 1))
                    /\ op.valor_total = SomaAte(op.id_titulo, i_reg - 1)
    /\ pc = "salvar" =>
          /\ UmPorOperacao(registros_agrupados, Len(registros))
          /\ \A a \in 1..Len(registros_agrupados) :
                LET row == registros_agrupados[a]
                    n   == Len(registros)
                IN  /\ row.parcelas = Dec(Cardinality(Com(row.id_titulo, n)))
                    /\ row.valor = numero_para_valor(SomaAte(row.id_titulo, n))

\* Records A-1 of 5,00, B of nothing, A-2 of 7,00 gave the rows A (2 instalments,
\* 12,00) and B
C1_Agrupou ==
    /\ pc = "salvar"
    /\ Len(registros) = 3
    /\ Len(registros_agrupados) = 2
    /\ registros[1].id_titulo = registros[3].id_titulo
    /\ registros_agrupados[1].id_titulo = registros[1].id_titulo
    /\ registros_agrupados[1].parcelas = <<"2">>
    /\ registros_agrupados[1].valor = <<"R", "$", " ", "1", "2", ",", "0", "0">>
    /\ registros_agrupados[2].parcelas = <<"1">>

\* The fields of a summary that say whose operation it is
Descritivos(op) ==
    <<op.chave, op.id_titulo, op.nome, op.cpf_cnpj, op.endereco, op.cep, op.email,
      op.telefone>>

\* C2: a record whose identifier already has a summary changes the count and
\* the total of that summary and nothing else: every summary keeps the name,
\* document, address, postal code, email and phone of the first record with
\* its identifier, and the other summaries stay as they are
C2_SoContadores ==
    [][(pc = "agrupar" /\ pc' = "agrupar") =>
          LET rg   == registros[i_reg]
              ops  == operacoes_agrupadas
              ja   == {a \in 1..Len(ops) : ops[a].chave = rg.id_titulo}
          IN  /\ \A a \in 1..Len(ops') :
                    LET primeiro == registros[Min(Com(ops'[a].id_titulo, i_reg))]
                    IN  Descritivos(ops'[a]) =
                            <<primeiro.id_titulo, primeiro.id_titulo, primeiro.nome,
                              primeiro.cpf_cnpj, primeiro.endereco, primeiro.cep,
                              primeiro.email, primeiro.telefone>>
              /\ ja # {} =>
                    /\ Len(ops') = Len(ops)
                    /\ \A a \in 1..Len(ops) :
                          IF a \in ja
                          THEN /\ Descritivos(ops'[a]) = Descritivos(ops[a])
                               /\ ops'[a].quantidade_parcelas =
                                      ops[a].quantidade_parcelas + 1
                               /\ ops'[a].valor_total =
                                      FloatAdd(ops[a].valor_total, rg.valor)
                          ELSE ops'[a] = ops[a]
      ]_vars

\* A second record of ANA's operation, in the name of BIA, has been added to
\* the summary, next to the summary of another operation
C2_Duplicado ==
    /\ pc = "agrupar"
    /\ i_reg = 4
    /\ Len(operacoes_agrupadas) = 2
    /\ registros[1].id_titulo = registros[3].id_titulo
    /\ registros[1].nome = T_ANA /\ registros[3].nome = T_BIA
    /\ operacoes_agrupadas[1].quantidade_parcelas = 2
    /\ operacoes_agrupadas[1].nome = T_ANA

(***************************************************************************)
(* Properties of processar_arquivo and main                                *)
(***************************************************************************)
\* A line that parse_cnab_linha takes for a detail record: 400 characters or
\* more, the first "1"
LinhaDeDetalhe(l) == l.tam >= 400 /\ l.tipo = <<"1">>

\* The file read has no detail line
SemDetalhe == \A j \in 1..Len(linhas) : ~LinhaDeDetalhe(linhas[j])

\* The call of processar_arquivo for file i_arquivo is past its line loop
AposLinhas == i_arquivo >= 1 /\ pc \in {"agrupar", "salvar", "contar", "fim", "abortado"}

\* C4: a file that is read and has no detail line (none of 400 characters or
\* more that starts with "1") makes processar_arquivo return False without a
\* spreadsheet, and so does every call that returns with registros empty;
\* whenever the call goes on to group and to save, and whenever a spreadsheet
\* exists, registros is not empty and the table written has at least one row
C4_SemRegistrosFalha ==
    /\ (AposLinhas /\ SemDetalhe) =>
          /\ pc \in {"contar", "fim"}
          /\ retorno = "False"
          /\ i_arquivo \notin planilhas
    /\ (AposLinhas /\ registros = <<>> /\ retorno # "raise") => retorno = "False"
    /\ pc \in {"agrupar", "salvar"} => registros # <<>>
    /\ pc = "salvar" => Len(registros_agrupados) >= 1
    /\ i_arquivo \in planilhas =>
          /\ retorno = "True"
          /\ registros # <<>>
          /\ Len(registros_agrupados) >= 1

\* A file of a header and a line cut short has been read and refused
C4_ArquivoSemDetalhe ==
    /\ pc = "contar"
    /\ Len(linhas) = 2
    /\ linhas[1].tipo = <<"0">>
    /\ linhas[2].tam = 399
    /\ i_linha = 3
    /\ retorno = "False"
    /\ i_arquivo \notin planilhas

\* C5: when a run of main ends, every file of the list has been processed and
\* counted, whatever happened to the files before it: sucessos + falhas is the
\* number of files.  Runs that parse_cnab_linha ended are left aside: what is
\* at stake here is a failure of reading, an empty result, or a failure of
\* writing the spreadsheet
C5_TodosProcessados ==
    (pc \in {"fim", "abortado"} /\ reg.kind # "raise") =>
        /\ pc = "fim"
        /\ i_arquivo = n_arquivos
        /\ sucessos + falhas = n_arquivos

\* id is the field t without the prefix 210, if t starts with it, and without
\* what follows the first hyphen
SemPrefixoNemSufixo(t, id) ==
    LET p == IF StartsWith(t, <<"2", "1", "0">>) THEN 3 ELSE 0
    IN  /\ \A j \in 1..Len(id) : id[j] # "-"
        /\ p + Len(id) <= Len(t)
        /\ id = SubSeq(t, p + 1, p + Len(id))
        /\ p + Len(id) = Len(t) \/ t[p + Len(id) + 1] = "-"

\* The detail lines of the file whose operation number is id
LinhasDe(id) ==
    {j \in 1..Len(linhas) :
        LinhaDeDetalhe(linhas[j]) /\ SemPrefixoNemSufixo(linhas[j].titulo, id)}

\* C6: the identifier of a record is the text of columns 108-122 without the
\* prefix 210 and without the hyphen and what follows it, so it has no hyphen;
\* and the detail lines of a file with one operation number, whatever their
\* suffixes, make exactly one row, whose count is the number of those lines
C6_NumeroDaOperacao ==
    /\ (pc \in {"linhas", "agrupar", "salvar"} /\ linha_arg.tam >= 400
                                               /\ reg.kind = "reg") =>
          /\ SemPrefixoNemSufixo(linha_arg.titulo, reg.id_titulo)
          /\ \A j \in 1..Len(reg.id_titulo) : reg.id_titulo[j] # "-"
    /\ pc = "salvar" =>
          \A j \in 1..Len(linhas) :
              LinhaDeDetalhe(linhas[j]) =>
                  LET rows == {a \in 1..Len(registros_agrupados) :
                                  SemPrefixoNemSufixo(linhas[j].titulo,
                                                      registros_agrupados[a].id_titulo)}
                  IN  /\ Cardinality(rows) = 1
                      /\ \A a \in rows :
                            registros_agrupados[a].parcelas =
                                Dec(Cardinality(LinhasDe(registros_agrupados[a].id_titulo)))

\* A header and the instalments -001 of 5,00 and -002 of 7,00 of operation
\* 2104757146 made the one row of 4757146: 2 instalments, 12,00
C6_DuasParcelas ==
    /\ pc = "salvar"
    /\ Len(linhas) = 3
    /\ linhas[1].tipo = <<"0">>
    /\ linhas[2].titulo = T_OP1 \o T_P1
    /\ linhas[3].titulo = T_OP1 \o T_P2
    /\ Len(registros_agrupados) = 1
    /\ registros_agrupados[1].id_titulo = T_OP1S
    /\ registros_agrupados[1].parcelas = <<"2">>
    /\ registros_agrupados[1].valor = <<"R", "$", " ", "1", "2", ",", "0", "0">>

(***************************************************************************)
(* Properties of parse_cnab_linha                                          *)
(***************************************************************************)
\* C3: parse_cnab_linha returns a record exactly for the lines of 400
\* characters or more whose first character is "1", None for the others, and
\* never raises
C3_RegistroSeDetalhe ==
    pc = "retornou" =>
        LET texto == Texto(linha_arg)
        IN  IF Len(texto) >= 400 /\ texto[1] = "1"
            THEN reg.kind = "reg"
            ELSE reg.kind = "None"

\* The amount written into the line: the centavos c, if any
EscritoComo(c) == linha_arg.valor = Quantia(c)

\* C9: a detail line whose amount is written as zeros, the centavos and 457
\* gives a record with that amount, and a line without such a pattern gives
\* the amount zero (stated for the lines that give a record: the lines on
\* which the extraction raises are those of C3)
C9_ValorDaLinha ==
    (pc = "retornou" /\ LinhaDeDetalhe(linha_arg) /\ reg.kind = "reg") =>
        /\ \A c \in CentavosTeste :
              EscritoComo(c) => FloatCentavos(reg.valor) = BigOfNat(c)
        /\ ValorGroup(Texto(linha_arg)) = <<>> => reg.valor = FloatZero

\* e has the shape of the pattern: a letter, characters of the local part,
\* "@", one or more characters of the domain, a dot and two or more letters
FormaDeEmail(e) ==
    \E at \in 2..Len(e), dot \in 4..Len(e) :
        /\ IsLetter(e[1])
        /\ \A j \in 2..(at - 1) : IsLocalChar(e[j])
        /\ e[at] = "@"
        /\ at + 1 < dot
        /\ \A j \in (at + 1)..(dot - 1) : IsDomainChar(e[j])
        /\ e[dot] = "."
        /\ Len(e) - dot >= 2
        /\ \A j \in (dot + 1)..Len(e) : IsLetter(e[j])

\* C10: the email of a record is empty, or it is in lower case, has the shape
\* of an email, begins with a letter and stands, but for the case of its
\* letters, in columns 326-385 of the line
C10_EmailComecaComLetra ==
    (pc = "retornou" /\ reg.kind = "reg" /\ reg.email # <<>>) =>
        LET e      == reg.email
            janela == Slice(Texto(linha_arg), 326, 385)
        IN  /\ IsLetter(e[1])
            /\ e = Lower(e)
            /\ FormaDeEmail(e)
            /\ \E p \in 1..Len(janela) :
                  /\ p + Len(e) - 1 <= Len(janela)
                  /\ Lower(SubSeq(janela, p, p + Len(e) - 1)) = e

\* The window began with the digits 12345678 glued to Joao@x.com, and the
\* email of the record is joao@x.com
C10_DepoisDosDigitos ==
    /\ pc = "retornou"
    /\ reg.kind = "reg"
    /\ Len(linha_arg.email) = 18
    /\ SubSeq(linha_arg.email, 1, 8) = <<"1", "2", "3", "4", "5", "6", "7", "8">>
    /\ reg.email = <<"j", "o", "a", "o", "@", "x", ".", "c", "o", "m">>

(***************************************************************************)
(* Properties of the formatters                                            *)
(***************************************************************************)
\* C7: formatar_cpf_cnpj always gives DDD.DDD.DDD-DD; its 11 digits are the
\* last 11 digits of the argument, when it has more, and the digits of the
\* argument after zeros, when it has fewer
C7_FormaDoCpf ==
    pc = "retornou" =>
        LET d   == OnlyDigits(doc_arg)
            n   == Len(d)
            out == doc_formatado
            ds  == OnlyDigits(out)
        IN  /\ Len(out) = 14
            /\ \A j \in 1..14 :
                  IF j \in {4, 8} THEN out[j] = "."
                  ELSE IF j = 12 THEN out[j] = "-"
                  ELSE IsDigit(out[j])
            /\ Len(ds) = 11
            /\ \A j \in 1..11 :
                  ds[j] = IF n >= 11 THEN d[n - 11 + j]
                          ELSE IF j <= 11 - n THEN "0"
                          ELSE d[j - (11 - n)]

\* A punctuated document of more than 11 digits has been formatted
C7_MaisDeOnze ==
    /\ pc = "retornou"
    /\ Len(OnlyDigits(doc_arg)) > 11
    /\ Len(doc_arg) > Len(OnlyDigits(doc_arg))
    /\ Len(doc_formatado) = 14

\* C8: the digits of the currency text of c centavos, read as centavos, are c
\* again, for every c >= 0; an empty string or one of zeros gives "R$ 0,00",
\* and "100" gives "R$ 1,00"
C8_IdaEVolta ==
    pc = "retornou" =>
        /\ valor_arg = OnlyDigits(valor_arg) =>
              BigOfStr(OnlyDigits(valor_formatado)) = BigOfStr(valor_arg)
        /\ valor_arg \in {<<>>, Rep("0", 9)} =>
              valor_formatado = <<"R", "$", " ", "0", ",", "0", "0">>
        /\ valor_arg = <<"1", "0", "0">> =>
              valor_formatado = <<"R", "$", " ", "1", ",", "0", "0">>

====
